---- MODULE Spec2Model ----
(***************************************************************************)
(* Model of Yunshu_System/Core_Layer/Agent_Core/memory_engine.py:          *)
(* the SimpleBM25 index (tokenizer, fit, search, save, load) and the       *)
(* MemoryManager that builds, persists, caches and queries one index per   *)
(* novel directory.                                                        *)
(*                                                                         *)
(* Text is a sequence of one-character strings.  A token is a sequence of  *)
(* at most two characters.  Python floats are fixed-point integers with    *)
(* Scale units per 1.0.                                                    *)
(***************************************************************************)
EXTENDS Integers, Sequences, FiniteSets, TLC

VARIABLES bm, other, otherState, path, ret,
          dirs, sidecar, diskFull, engines, last,
          qa, wk

bmVars == <<bm, other, otherState, path, ret>>
mmVars == <<dirs, sidecar, diskFull, engines, last>>
ccVars == <<qa, wk>>
vars == <<bm, other, otherState, path, ret, dirs, sidecar, diskFull, engines, last,
          qa, wk>>

(***************************************************************************)
(* Bounds of the model.                                                    *)
(***************************************************************************)
MaxDocs == 2
MaxTopK == 2
Scale == 1000

(***************************************************************************)
(* Generic helpers.                                                        *)
(***************************************************************************)
Range(s) == {s[i] : i \in DOMAIN s}

Min(a, b) == IF a < b THEN a ELSE b

Max(a, b) == IF a > b THEN a ELSE b

RECURSIVE SumSeq(_)
SumSeq(s) == IF s = <<>> THEN 0 ELSE Head(s) + SumSeq(Tail(s))

RECURSIVE Concat(_)
Concat(ss) == IF ss = <<>> THEN <<>> ELSE Head(ss) \o Concat(Tail(ss))

\* Python slice s[:k]: the first k elements for k >= 0, all but the last -k
\* elements for k < 0.
SliceTo(s, k) ==
    IF k >= 0 THEN SubSeq(s, 1, Min(k, Len(s)))
    ELSE SubSeq(s, 1, Max(Len(s) + k, 0))

\* Injective sequences over S of length at most n.
SeqsUpTo(S, n) ==
    UNION {{s \in [1..m -> S] : \A i, j \in 1..m : i # j => s[i] # s[j]} : m \in 0..n}

(***************************************************************************)
(* Characters and sample texts.                                            *)
(***************************************************************************)
WordChars == {"a", "b", "x"}

txtAB == <<"a", "b">>
txtABAB == <<"a", "b", "a", "b">>
txtBdotA == <<"b", ".", "a">>
txtDot == <<".">>
txtABB == <<"a", "b", "b">>
txtX == <<"x">>
txtBAB == <<"b", "a", "b">>
txtABBA == <<"a", "b", "b", "a">>
txtEmpty == <<>>
txtDotADot == <<".", "a", ".">>

Queries == {txtAB, txtBAB, txtDot, txtX}

(***************************************************************************)
(* SimpleBM25._tokenize                                                    *)
(***************************************************************************)
IsWordChar(ch) == ch \in WordChars

\* A tokenizer that returns no token for fewer than two word characters.
tokenizeEmptyForShort(text) ==
    LET t == SelectSeq(text, IsWordChar)
    IN  IF Len(t) < 2 THEN <<>>
        ELSE [i \in 1..(Len(t) - 1) |-> SubSeq(t, i, i + 1)]

\* A tokenizer that pairs the characters of the text as given, without
\* removing the non-word characters.
tokenizeUnstripped(text) ==
    IF Len(text) < 2 THEN <<text>>
    ELSE [i \in 1..(Len(text) - 1) |-> SubSeq(text, i, i + 1)]

tokenize(text) ==
    LET t == SelectSeq(text, IsWordChar)
    IN  IF Len(t) < 2 THEN <<t>>
        ELSE [i \in 1..(Len(t) - 1) |-> SubSeq(t, i, i + 1)]

(***************************************************************************)
(* collections.Counter: a mapping whose missing keys read as 0.            *)
(***************************************************************************)
\* A count that records each term once, however often it occurs.
CounterOfPresence(terms) == [t \in Range(terms) |-> 1]

Counter(terms) ==
    [t \in Range(terms) |-> Cardinality({i \in DOMAIN terms : terms[i] = t})]

CounterGet(c, t) == IF t \in DOMAIN c THEN c[t] ELSE 0

\* A mapping whose read of a missing key stores 0 under it, as defaultdict(int).
CounterAfterGetStoring(c, t) ==
    IF t \in DOMAIN c THEN c
    ELSE [x \in DOMAIN c \cup {t} |-> IF x = t THEN 0 ELSE c[x]]

\* The Counter after the read c[t]: a missing key reads as 0 and nothing is
\* stored.
CounterAfterGet(c, t) == c

(***************************************************************************)
(* math.log on fixed-point numbers x >= Scale, by the series               *)
(* ln x = 2 (z + z^3/3 + z^5/5 + ...), z = (x - 1)/(x + 1).                *)
(***************************************************************************)
RECURSIVE LnSeries(_, _, _, _)
LnSeries(term, z2, j, acc) ==
    IF term = 0 \/ j > 25 THEN acc
    ELSE LnSeries((term * z2) \div Scale, z2, j + 2, acc + (term \div j))

Ln(x) ==
    LET z == ((x - Scale) * Scale) \div (x + Scale)
    IN  2 * LnSeries(z, (z * z) \div Scale, 1, 0)

(***************************************************************************)
(* SimpleBM25.__init__ and the default parameters.                         *)
(***************************************************************************)
K1Default == (3 * Scale) \div 2
BDefault == (3 * Scale) \div 4

\* doc_term_counts is first assigned by fit or load; save is only applied to an
\* object that has it.
SimpleBM25(k1, b) ==
    [k1 |-> k1, b |-> b, avgdl |-> 0, doc_count |-> 0, idf |-> <<>>,
     doc_lengths |-> <<>>, documents |-> <<>>, doc_term_counts |-> <<>>]

(***************************************************************************)
(* SimpleBM25.fit                                                          *)
(***************************************************************************)
\* A fit with the IDF ln((N - df + 0.5) / (df + 0.5)), without the "+ 1".
fitPlainIdf(self, documents) ==
    LET n == Len(documents)
        terms == [i \in 1..n |-> tokenize(documents[i].content)]
        lengths == [i \in 1..n |-> Len(terms[i])]
        counts == [i \in 1..n |-> Counter(terms[i])]
        total == SumSeq(lengths)
        allTerms == UNION {DOMAIN counts[i] : i \in 1..n}
        df == [t \in allTerms |-> Cardinality({i \in 1..n : t \in DOMAIN counts[i]})]
        half == Scale \div 2
    IN  [k1 |-> self.k1, b |-> self.b,
         avgdl |-> IF n > 0 THEN (total * Scale) \div n ELSE 0,
         doc_count |-> n,
         idf |-> [t \in allTerms |->
                    Ln((((n - df[t]) * Scale + half) * Scale)
                         \div (df[t] * Scale + half))],
         doc_lengths |-> lengths,
         documents |-> documents,
         doc_term_counts |-> counts]

fit(self, documents) ==
    LET n == Len(documents)
        terms == [i \in 1..n |-> tokenize(documents[i].content)]
        lengths == [i \in 1..n |-> Len(terms[i])]
        counts == [i \in 1..n |-> Counter(terms[i])]
        total == SumSeq(lengths)
        allTerms == UNION {DOMAIN counts[i] : i \in 1..n}
        df == [t \in allTerms |-> Cardinality({i \in 1..n : t \in DOMAIN counts[i]})]
        half == Scale \div 2
    IN  [k1 |-> self.k1, b |-> self.b,
         avgdl |-> IF n > 0 THEN (total * Scale) \div n ELSE 0,
         doc_count |-> n,
         idf |-> [t \in allTerms |->
                    Ln((((n - df[t]) * Scale + half) * Scale)
                         \div (df[t] * Scale + half) + Scale)],
         doc_lengths |-> lengths,
         documents |-> documents,
         doc_term_counts |-> counts]

(***************************************************************************)
(* SimpleBM25.search                                                       *)
(***************************************************************************)
\* A term score with the frequency left out of the numerator.
TermScoreWithoutFreq(self, i, term) ==
    IF term \notin DOMAIN self.idf THEN 0
    ELSE LET freq == CounterGet(self.doc_term_counts[i], term)
             numerator == IF freq = 0 THEN 0
                          ELSE (self.idf[term] * (self.k1 + Scale)) \div Scale
             ratio == (self.doc_lengths[i] * Scale * Scale) \div self.avgdl
             denominator ==
                 freq * Scale
                 + (self.k1 * (Scale - self.b + (self.b * ratio) \div Scale)) \div Scale
         IN  (numerator * Scale) \div denominator

\* One query term's contribution to the score of document i (lines 76-82).
TermScore(self, i, term) ==
    IF term \notin DOMAIN self.idf THEN 0
    ELSE LET freq == CounterGet(self.doc_term_counts[i], term)
             numerator == (self.idf[term] * freq * (self.k1 + Scale)) \div Scale
             ratio == (self.doc_lengths[i] * Scale * Scale) \div self.avgdl
             denominator ==
                 freq * Scale
                 + (self.k1 * (Scale - self.b + (self.b * ratio) \div Scale)) \div Scale
         IN  (numerator * Scale) \div denominator

Score(self, i, query_terms) ==
    SumSeq([j \in DOMAIN query_terms |-> TermScore(self, i, query_terms[j])])

\* The term counts of one document after the reads of line 79, one for every
\* query term that is in the IDF table.
RECURSIVE CountsAfterReads(_, _, _)
CountsAfterReads(term_counts, query_terms, idf) ==
    IF query_terms = <<>> THEN term_counts
    ELSE CountsAfterReads(IF Head(query_terms) \in DOMAIN idf
                          THEN CounterAfterGet(term_counts, Head(query_terms))
                          ELSE term_counts,
                          Tail(query_terms), idf)

\* The index object after search(query): search assigns no attribute, and
\* reads doc_term_counts[i][term] for every document and known query term.
AfterSearch(self, query) ==
    [self EXCEPT !.doc_term_counts =
        [i \in DOMAIN @ |-> CountsAfterReads(@[i], tokenize(query), self.idf)]]

\* An insertion that puts an element before the elements of equal score.
RECURSIVE InsertDescBeforeEqual(_, _)
InsertDescBeforeEqual(sorted, e) ==
    IF sorted = <<>> THEN <<e>>
    ELSE IF Head(sorted).score > e.score
         THEN <<Head(sorted)>> \o InsertDescBeforeEqual(Tail(sorted), e)
         ELSE <<e>> \o sorted

\* list.sort(key=score, reverse=True): stable, equal scores keep their order.
RECURSIVE InsertDesc(_, _)
InsertDesc(sorted, e) ==
    IF sorted = <<>> THEN <<e>>
    ELSE IF Head(sorted).score >= e.score
         THEN <<Head(sorted)>> \o InsertDesc(Tail(sorted), e)
         ELSE <<e>> \o sorted

\* A sort that leaves the list as it is.
SortDescNoSort(s) == s

RECURSIVE SortDesc(_)
SortDesc(s) ==
    IF s = <<>> THEN <<>>
    ELSE InsertDesc(SortDesc(SubSeq(s, 1, Len(s) - 1)), s[Len(s)])

\* Candidates with the test "score >= 0" in place of "score > 0".
CandidatesNonNegative(self, query) ==
    LET query_terms == tokenize(query)
        scored == [i \in 1..self.doc_count |->
                     [score |-> Score(self, i, query_terms), doc |-> self.documents[i]]]
        NonNegative(e) == e.score >= 0
    IN  SelectSeq(scored, NonNegative)

\* The (score, document) pairs with a positive score, in document order.
Candidates(self, query) ==
    LET query_terms == tokenize(query)
        scored == [i \in 1..self.doc_count |->
                     [score |-> Score(self, i, query_terms), doc |-> self.documents[i]]]
        Positive(e) == e.score > 0
    IN  SelectSeq(scored, Positive)

search(self, query, top_k) == SliceTo(SortDesc(Candidates(self, query)), top_k)

(***************************************************************************)
(* The JSON file written by save.  A JSON object is the sequence of its    *)
(* members <<key, value>>; reading it back gives a mapping in which a      *)
(* repeated key keeps its last value.  A file is absent, unparseable, or   *)
(* holds one JSON document.                                                *)
(***************************************************************************)
RECURSIVE DictItems(_)
DictItems(d) ==
    IF DOMAIN d = {} THEN <<>>
    ELSE LET key == CHOOSE x \in DOMAIN d : TRUE
         IN  <<<<key, d[key]>>>> \o DictItems([x \in DOMAIN d \ {key} |-> d[x]])

FromItems(items) ==
    [key \in {items[i][1] : i \in DOMAIN items} |->
        items[CHOOSE i \in DOMAIN items :
                 /\ items[i][1] = key
                 /\ \A j \in DOMAIN items : items[j][1] = key => j <= i][2]]

NoFile == [kind |-> "absent"]
CorruptFile == [kind |-> "corrupt"]
JsonFile(data) == [kind |-> "json", data |-> data]

(***************************************************************************)
(* SimpleBM25.save: the document written to the path.                      *)
(***************************************************************************)
save(self) ==
    JsonFile([k1 |-> self.k1,
              b |-> self.b,
              avgdl |-> self.avgdl,
              doc_count |-> self.doc_count,
              idf |-> DictItems(self.idf),
              doc_lengths |-> self.doc_lengths,
              documents |-> self.documents,
              doc_term_counts |->
                  [i \in DOMAIN self.doc_term_counts |->
                      DictItems(self.doc_term_counts[i])]])

\* A load that restores everything but the parameters k1 and b.
loadKeepingParams(self, file) ==
    LET data == file.data
    IN  [self EXCEPT !.avgdl = data.avgdl,
                     !.doc_count = data.doc_count,
                     !.idf = FromItems(data.idf),
                     !.doc_lengths = data.doc_lengths,
                     !.documents = data.documents,
                     !.doc_term_counts =
                         [i \in DOMAIN data.doc_term_counts |->
                             FromItems(data.doc_term_counts[i])]]

(***************************************************************************)
(* SimpleBM25.load: the object after reading a parseable file.             *)
(***************************************************************************)
load(self, file) ==
    LET data == file.data
    IN  [self EXCEPT !.k1 = data.k1,
                     !.b = data.b,
                     !.avgdl = data.avgdl,
                     !.doc_count = data.doc_count,
                     !.idf = FromItems(data.idf),
                     !.doc_lengths = data.doc_lengths,
                     !.documents = data.documents,
                     !.doc_term_counts =
                         [i \in DOMAIN data.doc_term_counts |->
                             FromItems(data.doc_term_counts[i])]]

(***************************************************************************)
(* Documents and parameters the index is exercised with.                   *)
(***************************************************************************)
Doc(novel, sub, filename, content) ==
    [content |-> content,
     meta |-> [path |-> <<novel>> \o sub \o <<filename>>, filename |-> filename]]

SampleDocs ==
    {Doc("n1", <<>>, "ch1.txt", txtAB),
     Doc("n1", <<>>, "ch2.txt", txtABAB),
     Doc("n1", <<>>, "ch3.txt", txtBdotA),
     Doc("n1", <<"vol">>, "ch4.txt", txtDot),
     Doc("n1", <<"vol">>, "ch5.txt", txtABB),
     Doc("n1", <<"vol">>, "ch6.txt", txtABBA)}

Corpora == SeqsUpTo(SampleDocs, MaxDocs)

DefaultParams == [k1 |-> K1Default, b |-> BDefault]
AltParams == [k1 |-> 2 * Scale, b |-> Scale \div 2]
Params == {DefaultParams, AltParams}

OtherCorpora ==
    {<<Doc("n2", <<>>, "ch9.txt", txtBAB)>>,
     <<Doc("n1", <<>>, "ch1.txt", txtABAB), Doc("n1", <<>>, "ch2.txt", txtAB)>>}

TopKs == (0 - 1)..MaxTopK

\* Texts the tokenizer is applied to on its own.
Texts == {txtEmpty, txtDot, txtX, txtDotADot, txtAB, txtBdotA, txtBAB, txtABAB, txtABBA}

NoRet == [op |-> "none", query |-> <<>>, top_k |-> 0, results |-> <<>>]

(***************************************************************************)
(* Specification of one index object bm, its saved file, and a second      *)
(* object other that the file is loaded into.                              *)
(***************************************************************************)
\* No thread is inside a call of the manager.
CCIdle ==
    /\ qa = <<>>
    /\ wk = <<>>

MMIdle ==
    /\ dirs = <<>>
    /\ sidecar = <<>>
    /\ diskFull = FALSE
    /\ engines = <<>>
    /\ last = <<>>

InitBM25 ==
    /\ \E docs \in Corpora, p \in Params : bm = fit(SimpleBM25(p.k1, p.b), docs)
    /\ other = SimpleBM25(K1Default, BDefault)
    /\ otherState = "new"
    /\ path = NoFile
    /\ ret = NoRet
    /\ MMIdle
    /\ CCIdle

BMSearch ==
    /\ \E q \in Queries, k \in TopKs :
          /\ ret' = [op |-> "search", query |-> q, top_k |-> k,
                     results |-> search(bm, q, k)]
          /\ bm' = AfterSearch(bm, q)
    /\ UNCHANGED <<other, otherState, path, mmVars, ccVars>>

BMTokenize ==
    /\ \E text \in Texts :
          ret' = [op |-> "tokenize", query |-> text, top_k |-> 0,
                  results |-> tokenize(text)]
    /\ UNCHANGED <<bm, other, otherState, path, mmVars, ccVars>>

BMSave ==
    /\ path' = save(bm)
    /\ UNCHANGED <<bm, other, otherState, ret, mmVars, ccVars>>

OtherFit ==
    /\ \E docs \in OtherCorpora, p \in Params :
          other' = fit(SimpleBM25(p.k1, p.b), docs)
    /\ otherState' = "fit"
    /\ UNCHANGED <<bm, path, ret, mmVars, ccVars>>

OtherLoad ==
    /\ path.kind = "json"
    /\ other' = load(other, path)
    /\ otherState' = IF otherState = "fit" THEN "loaded over fit" ELSE "loaded"
    /\ UNCHANGED <<bm, path, ret, mmVars, ccVars>>

NextBM25 == BMSearch \/ BMTokenize \/ BMSave \/ OtherFit \/ OtherLoad

SpecBM25 == InitBM25 /\ [][NextBM25]_vars

(***************************************************************************)
(* Properties of the index (checked under SpecBM25).  The parameters range *)
(* over k1 >= 0 and 0 <= b <= 1.                                           *)
(***************************************************************************)
OtherLoaded == otherState \in {"loaded", "loaded over fit"}

ResultDocs(results) == {results[j].doc : j \in DOMAIN results}

\* C1: round trip.  Once the file saved from bm has been loaded into other
\* (a fresh object, or one fitted before over another corpus with other k1/b),
\* other.search(Q, top_k) returns the same documents in the same order with the
\* same scores as bm.search(Q, top_k) for every query and top_k, and every field
\* of other is the saved one: nothing other held before the load survives.
C1_RoundTrip ==
    OtherLoaded =>
        /\ \A q \in Queries, k \in TopKs : search(other, q, k) = search(bm, q, k)
        /\ other.k1 = bm.k1 /\ other.b = bm.b
        /\ other.avgdl = bm.avgdl /\ other.doc_count = bm.doc_count
        /\ other.idf = bm.idf /\ other.doc_lengths = bm.doc_lengths
        /\ other.documents = bm.documents
        /\ other.doc_term_counts = bm.doc_term_counts

\* An index with two ranked documents and non-default parameters was loaded into
\* an object that had been fitted over another corpus.
C1_Witness ==
    /\ otherState = "loaded over fit"
    /\ bm.k1 # K1Default
    /\ Len(search(other, txtBAB, MaxTopK)) >= 2

\* C2: top-k correctness.  For top_k >= 1, search returns exactly min(top_k, C)
\* results, C being the number of documents with a positive score; the scores
\* returned are in non-increasing order; no document left out has a score
\* higher than a returned one.
C2_TopK ==
    (ret.op = "search" /\ ret.top_k >= 1) =>
        LET terms == tokenize(ret.query)
            positive == {i \in 1..bm.doc_count : Score(bm, i, terms) > 0}
            res == ret.results
        IN  /\ Len(res) = Min(ret.top_k, Cardinality(positive))
            /\ \A j \in 1..(Len(res) - 1) : res[j].score >= res[j + 1].score
            /\ \A i \in 1..bm.doc_count :
                  bm.documents[i] \notin ResultDocs(res) =>
                      \A j \in DOMAIN res : Score(bm, i, terms) <= res[j].score

\* top_k = 1 cut a lower-scoring candidate, and the winner is the later document.
C2_Witness ==
    /\ ret.op = "search" /\ ret.top_k = 1
    /\ bm.doc_count >= 2
    /\ Len(ret.results) = 1
    /\ ret.results[1].doc = bm.documents[2]
    /\ Score(bm, 1, tokenize(ret.query)) > 0
    /\ Score(bm, 1, tokenize(ret.query)) < ret.results[1].score

\* C3: match set.  Every returned document shares a token with the tokenized
\* query and has a positive score; without truncation (top_k at least the
\* document count) the returned documents are exactly those sharing a token with
\* the query; a query with no token in the IDF table returns nothing.
C3_MatchSet ==
    ret.op = "search" =>
        LET terms == Range(tokenize(ret.query))
            matching == {i \in 1..bm.doc_count :
                            Range(tokenize(bm.documents[i].content)) \cap terms # {}}
            res == ret.results
        IN  /\ \A j \in DOMAIN res : res[j].score > 0
            /\ ResultDocs(res) \subseteq {bm.documents[i] : i \in matching}
            /\ ret.top_k >= bm.doc_count =>
                  ResultDocs(res) = {bm.documents[i] : i \in matching}
            /\ terms \cap DOMAIN bm.idf = {} => res = <<>>

\* An untruncated search returned one of two documents: the other shares no
\* token with the query.
C3_Witness ==
    /\ ret.op = "search"
    /\ bm.doc_count = 2
    /\ ret.top_k >= 2
    /\ Len(ret.results) = 1

(***************************************************************************)
(* The novels root on disk.  dirs[c] is the directory of novel c: whether  *)
(* it exists and the files os.walk yields under it, in walk order (sub is  *)
(* the directory path below the novel directory, so nested files are       *)
(* listed too).  sidecar[c] is the file .yunshu_memory.json of novel c.    *)
(***************************************************************************)
Novels == {"n1", "n2"}

File(sub, name, txt, readable, content) ==
    [sub |-> sub, name |-> name, txt |-> txt, readable |-> readable, content |-> content]

NoDir == [exists |-> FALSE, files |-> <<>>]
Dir(files) == [exists |-> TRUE, files |-> files]

DirNotes == Dir(<<File(<<>>, "notes.md", FALSE, TRUE, txtAB)>>)
DirOne == Dir(<<File(<<>>, "ch1.txt", TRUE, TRUE, txtAB),
               File(<<>>, "notes.md", FALSE, TRUE, txtABAB)>>)
DirTwo == Dir(<<File(<<>>, "ch1.txt", TRUE, TRUE, txtBdotA),
               File(<<>>, "bad.txt", TRUE, FALSE, txtAB),
               File(<<"vol">>, "ch2.txt", TRUE, TRUE, txtABAB)>>)
DirBad == Dir(<<File(<<>>, "bad.txt", TRUE, FALSE, txtAB)>>)

PreviewLen == 200

\* A chapter one character longer than the preview: "bab" followed by "a"s.
txtLong == [i \in 1..(PreviewLen + 1) |-> IF i \in {1, 3} THEN "b" ELSE "a"]

DirLong == Dir(<<File(<<>>, "ch1.txt", TRUE, TRUE, txtLong),
                File(<<>>, "ch2.txt", TRUE, TRUE, txtAB)>>)

\* The directory states each novel is exercised with.
DirStates(c) == IF c = "n1" THEN {NoDir, DirOne, DirTwo, DirBad}
                ELSE {NoDir, DirNotes, DirLong}

\* top_k values passed to the manager: a negative one, 1 and the largest.
MMTopKs == {0 - 1, 1, MaxTopK}

MMQueries == {txtBAB, txtX}

\* Path.iterdir() of the root: the existing novel directories in some order.
IterDirs == {s \in SeqsUpTo(Novels, Cardinality(Novels)) :
                Range(s) = {c \in Novels : dirs[c].exists}}

RootExists == \E c \in Novels : dirs[c].exists

(***************************************************************************)
(* MemoryManager.engines: a dict, kept as the sequence of its items in     *)
(* insertion order.                                                        *)
(***************************************************************************)
Keys(d) == {d[i].name : i \in DOMAIN d}

DictGet(d, name) == d[CHOOSE i \in DOMAIN d : d[i].name = name].engine

DictSet(d, name, engine) ==
    IF name \in Keys(d)
    THEN [i \in DOMAIN d |-> IF d[i].name = name
                              THEN [name |-> name, engine |-> engine] ELSE d[i]]
    ELSE Append(d, [name |-> name, engine |-> engine])

(***************************************************************************)
(* MemoryManager._preload_indices.  self is the manager's view            *)
(* [engines, sidecar]; items is the iterdir order.                         *)
(***************************************************************************)
\* A pass that ends at the first index file that fails to load.
RECURSIVE preload_indices_aborting(_, _)
preload_indices_aborting(self, items) ==
    IF items = <<>> THEN self
    ELSE IF self.sidecar[Head(items)].kind = "corrupt" THEN self
    ELSE preload_indices_aborting(
             IF self.sidecar[Head(items)].kind = "json"
             THEN [self EXCEPT !.engines =
                      DictSet(@, Head(items),
                              load(SimpleBM25(K1Default, BDefault),
                                   self.sidecar[Head(items)]))]
             ELSE self,
             Tail(items))

RECURSIVE preload_indices(_, _)
preload_indices(self, items) ==
    IF items = <<>> THEN self
    ELSE LET novel_name == Head(items)
             index_path == self.sidecar[novel_name]
             loaded ==
                 IF index_path.kind = "json"
                 THEN [self EXCEPT !.engines =
                          DictSet(@, novel_name,
                                  load(SimpleBM25(K1Default, BDefault), index_path))]
                 ELSE self
         IN  preload_indices(loaded, Tail(items))

\* A scan that does not descend below the novel directory.
ReadDocumentsTopOnly(novel_name) ==
    LET files == dirs[novel_name].files
        Indexed(f) == f.txt /\ f.readable /\ f.sub = <<>>
        kept == SelectSeq(files, Indexed)
    IN  [i \in DOMAIN kept |-> Doc(novel_name, kept[i].sub, kept[i].name, kept[i].content)]

(***************************************************************************)
(* MemoryManager.build_novel_index.  trunc says what a failed write leaves *)
(* behind: a truncated file (TRUE) or the path as it was (FALSE).          *)
(***************************************************************************)
ReadDocuments(novel_name) ==
    LET files == dirs[novel_name].files
        Indexed(f) == f.txt /\ f.readable
        kept == SelectSeq(files, Indexed)
    IN  [i \in DOMAIN kept |-> Doc(novel_name, kept[i].sub, kept[i].name, kept[i].content)]

Outcome(raised, ok, msg, self) == [raised |-> raised, ok |-> ok, msg |-> msg, self |-> self]

\* A save whose failure drops the entry the novel had in the cache.
SaveAndInstallEvicting(self, novel_name, engine, trunc) ==
    IF diskFull
    THEN Outcome(TRUE, FALSE, "OSError",
                 [engines |-> SelectSeq(self.engines, LAMBDA item : item.name # novel_name),
                  sidecar |-> IF trunc THEN [self.sidecar EXCEPT ![novel_name] = CorruptFile]
                              ELSE self.sidecar])
    ELSE Outcome(FALSE, TRUE, "Indexed chapters",
                 [engines |-> DictSet(self.engines, novel_name, engine),
                  sidecar |-> [self.sidecar EXCEPT ![novel_name] = save(engine)]])

\* An install of the fitted engine that writes no index file.
InstallWithoutSave(self, novel_name, engine, trunc) ==
    Outcome(FALSE, TRUE, "Indexed chapters",
            [engines |-> DictSet(self.engines, novel_name, engine),
             sidecar |-> self.sidecar])

\* Lines 183-190: save the fitted engine, then install it in the cache.
SaveAndInstall(self, novel_name, engine, trunc) ==
    IF diskFull
    THEN Outcome(TRUE, FALSE, "OSError",
                 IF trunc THEN [self EXCEPT !.sidecar[novel_name] = CorruptFile]
                 ELSE self)
    ELSE Outcome(FALSE, TRUE, "Indexed chapters",
                 [engines |-> DictSet(self.engines, novel_name, engine),
                  sidecar |-> [self.sidecar EXCEPT ![novel_name] = save(engine)]])

\* Lines 180-190: what build does with the documents it has read.
IndexDocuments(self, novel_name, documents, trunc) ==
    IF documents = <<>>
    THEN Outcome(FALSE, FALSE, "No documents found", self)
    ELSE SaveAndInstall(self, novel_name,
                        fit(SimpleBM25(K1Default, BDefault), documents), trunc)

\* A build that drops the cached entry when it finds no documents.
build_novel_index_evicting(self, novel_name, trunc) ==
    IF ~dirs[novel_name].exists
    THEN Outcome(FALSE, FALSE, "Novel directory not found", self)
    ELSE IF ReadDocuments(novel_name) = <<>>
    THEN Outcome(FALSE, FALSE, "No documents found",
                 [self EXCEPT !.engines =
                     SelectSeq(@, LAMBDA item : item.name # novel_name)])
    ELSE IndexDocuments(self, novel_name, ReadDocuments(novel_name), trunc)

\* A build that raises when the novel directory is missing.
build_novel_index_raising(self, novel_name, trunc) ==
    IF ~dirs[novel_name].exists
    THEN Outcome(TRUE, FALSE, "FileNotFoundError", self)
    ELSE IndexDocuments(self, novel_name, ReadDocuments(novel_name), trunc)

build_novel_index(self, novel_name, trunc) ==
    IF ~dirs[novel_name].exists
    THEN Outcome(FALSE, FALSE, "Novel directory not found", self)
    ELSE IndexDocuments(self, novel_name, ReadDocuments(novel_name), trunc)

(***************************************************************************)
(* MemoryManager.query                                                     *)
(***************************************************************************)
\* Records whose preview carries the marker only when the content was cut.
FormattedMarkingOnlyCut(novel_name, results) ==
    [i \in DOMAIN results |->
        [score |-> results[i].score,
         novel |-> novel_name,
         filename |-> results[i].doc.meta.filename,
         path |-> results[i].doc.meta.path,
         preview |-> IF Len(results[i].doc.content) > PreviewLen
                     THEN SliceTo(results[i].doc.content, PreviewLen) \o <<".", ".", ".">>
                     ELSE results[i].doc.content]]

Formatted(novel_name, results) ==
    [i \in DOMAIN results |->
        [score |-> results[i].score,
         novel |-> novel_name,
         filename |-> results[i].doc.meta.filename,
         path |-> results[i].doc.meta.path,
         preview |-> SliceTo(results[i].doc.content, PreviewLen) \o <<".", ".", ".">>]]

QueryOutcome(raised, results, self) == [raised |-> raised, results |-> results, self |-> self]

\* all_results.extend(results), or the exception of the query.
Collected(results, got) == QueryOutcome(got.raised, results \o got.results, got.self)

\* A "load if not cached" block that re-indexes the novel whenever its
\* directory is there.
EnsureEngineRebuilding(self, novel_name, trunc) ==
    IF dirs[novel_name].exists THEN build_novel_index(self, novel_name, trunc)
    ELSE Outcome(FALSE, novel_name \in Keys(self.engines), "cached", self)

\* Lines 195-205: the manager after the "load if not cached" block, with
\* raised set when load or the on-demand build raised and ok cleared when the
\* on-demand build reported failure.
EnsureEngine(self, novel_name, trunc) ==
    IF novel_name \in Keys(self.engines) THEN Outcome(FALSE, TRUE, "cached", self)
    ELSE IF self.sidecar[novel_name].kind = "json"
    THEN Outcome(FALSE, TRUE, "loaded",
             [self EXCEPT !.engines =
                 DictSet(@, novel_name,
                         load(SimpleBM25(K1Default, BDefault), self.sidecar[novel_name]))])
    ELSE IF self.sidecar[novel_name].kind = "corrupt"
    THEN Outcome(TRUE, FALSE, "JSONDecodeError", self)
    ELSE build_novel_index(self, novel_name, trunc)

\* Lines 204-222: the return of query once the engine has been looked for.
Answer(ready, novel_name, query_text, top_k) ==
    IF ready.raised THEN QueryOutcome(TRUE, <<>>, ready.self)
    ELSE IF ~ready.ok THEN QueryOutcome(FALSE, <<>>, ready.self)
    ELSE QueryOutcome(FALSE,
             Formatted(novel_name,
                       search(DictGet(ready.self.engines, novel_name), query_text, top_k)),
             ready.self)

query(self, novel_name, query_text, top_k, trunc) ==
    Answer(EnsureEngine(self, novel_name, trunc), novel_name, query_text, top_k)

(***************************************************************************)
(* MemoryManager.search_all                                                *)
(***************************************************************************)
\* Line 228: the discovery pass at the start of search_all.
Discovered(self, items) == IF RootExists THEN preload_indices(self, items) ELSE self

\* Lines 230-235: build every subdirectory; a raising build ends the loop.
RECURSIVE BuildAll(_, _, _)
BuildAll(out, items, trunc) ==
    IF items = <<>> \/ out.raised THEN out
    ELSE BuildAll(build_novel_index(out.self, Head(items), trunc), Tail(items), trunc)

BuildIfEmpty(preloaded, items, trunc) ==
    IF preloaded.engines = <<>> /\ RootExists
    THEN BuildAll(Outcome(FALSE, TRUE, "", preloaded), items, trunc)
    ELSE Outcome(FALSE, TRUE, "", preloaded)

\* Lines 237-239: query every cached novel in dict order, collecting results.
RECURSIVE QueryEach(_, _, _, _, _)
QueryEach(out, names, query_text, top_k, trunc) ==
    IF names = <<>> \/ out.raised THEN out
    ELSE QueryEach(Collected(out.results,
                             query(out.self, Head(names), query_text, top_k, trunc)),
                   Tail(names), query_text, top_k, trunc)

\* A query loop that asks every novel for one result fewer than top_k.
QueryCachedCutShort(built, query_text, top_k, trunc) ==
    QueryEach(QueryOutcome(built.raised, <<>>, built.self),
              [i \in DOMAIN built.self.engines |-> built.self.engines[i].name],
              query_text, top_k - 1, trunc)

QueryCached(built, query_text, top_k, trunc) ==
    QueryEach(QueryOutcome(built.raised, <<>>, built.self),
              [i \in DOMAIN built.self.engines |-> built.self.engines[i].name],
              query_text, top_k, trunc)

\* Lines 241-243 with the global sort left out.
SortAndCutUnsorted(all_results, top_k) ==
    IF all_results.raised THEN all_results
    ELSE QueryOutcome(FALSE, SliceTo(all_results.results, top_k), all_results.self)

\* Lines 241-243: the global sort and the cut to top_k.
SortAndCut(all_results, top_k) ==
    IF all_results.raised THEN all_results
    ELSE QueryOutcome(FALSE, SliceTo(SortDesc(all_results.results), top_k),
                      all_results.self)

\* A search_all without the build of lines 230-235.
search_all_never_building(self, query_text, top_k, items, trunc) ==
    SortAndCut(QueryCached(Outcome(FALSE, TRUE, "", Discovered(self, items)),
                           query_text, top_k, trunc),
               top_k)

search_all(self, query_text, top_k, items, trunc) ==
    SortAndCut(QueryCached(BuildIfEmpty(Discovered(self, items), items, trunc),
                           query_text, top_k, trunc),
               top_k)

(***************************************************************************)
(* Specification of the manager: its operations, a restart of the process  *)
(* (a new MemoryManager), and the environment changing the disk.           *)
(***************************************************************************)
Self == [engines |-> engines, sidecar |-> sidecar]

\* What a failed write can leave behind; immaterial while writes succeed.
Truncs == IF diskFull THEN BOOLEAN ELSE {FALSE}

\* The record of the last call: its arguments, whether it raised, what it
\* returned, and which novels were cached and which had an index file when it
\* was called.
Last(op, novel, q, k, raised, ok, msg, results) ==
    [op |-> op, novel |-> novel, query |-> q, top_k |-> k, raised |-> raised,
     ok |-> ok, msg |-> msg, results |-> results,
     cached_before |-> Keys(engines),
     sidecar_before |-> {c \in Novels : sidecar[c].kind # "absent"}]

BMIdle ==
    /\ bm = SimpleBM25(K1Default, BDefault)
    /\ other = SimpleBM25(K1Default, BDefault)
    /\ otherState = "new"
    /\ path = NoFile
    /\ ret = NoRet

Init ==
    /\ dirs \in {f \in [Novels -> UNION {DirStates(c) : c \in Novels}] :
                  \A c \in Novels : f[c] \in DirStates(c)}
    /\ sidecar = [c \in Novels |-> NoFile]
    /\ diskFull = FALSE
    /\ \E items \in IterDirs :
          engines = (IF RootExists
                     THEN preload_indices([engines |-> <<>>, sidecar |-> sidecar], items)
                     ELSE [engines |-> <<>>, sidecar |-> sidecar]).engines
    /\ last = [op |-> "init", novel |-> "", query |-> <<>>, top_k |-> 0, raised |-> FALSE,
               ok |-> TRUE, msg |-> "", results |-> <<>>,
               cached_before |-> {}, sidecar_before |-> {}]
    /\ BMIdle
    /\ CCIdle

\* The call returns or raises: the manager and the disk are as the call left
\* them and the outcome is recorded.
Called(op, c, q, k, out) ==
    /\ engines' = out.self.engines
    /\ sidecar' = out.self.sidecar
    /\ last' = Last(op, c, q, k, out.raised, out.ok, out.msg, out.results)
    /\ UNCHANGED <<dirs, diskFull, bmVars, ccVars>>

Returned(out) ==
    [raised |-> out.raised, ok |-> ~out.raised, msg |-> "", results |-> out.results,
     self |-> out.self]

BuildReturned(out) ==
    [raised |-> out.raised, ok |-> out.ok, msg |-> out.msg, results |-> <<>>,
     self |-> out.self]

Build(c) ==
    \E trunc \in Truncs :
        Called("build", c, <<>>, 0, BuildReturned(build_novel_index(Self, c, trunc)))

Query(c) ==
    \E q \in MMQueries, k \in MMTopKs, trunc \in Truncs :
        Called("query", c, q, k, Returned(query(Self, c, q, k, trunc)))

SearchAll ==
    \E q \in MMQueries, k \in MMTopKs, items \in IterDirs, trunc \in Truncs :
        Called("search_all", "", q, k, Returned(search_all(Self, q, k, items, trunc)))

\* A call of _preload_indices on the running manager.
Discover ==
    \E items \in IterDirs :
        Called("discover", "", <<>>, 0,
               [raised |-> FALSE, ok |-> TRUE, msg |-> "", results |-> <<>>,
                self |-> Discovered(Self, items)])

\* A new process: MemoryManager.__init__ over the disk as it is.  The new
\* manager starts with nothing cached.
Restart ==
    /\ \E items \in IterDirs :
          engines' = (IF RootExists
                      THEN preload_indices([engines |-> <<>>, sidecar |-> sidecar], items)
                      ELSE [engines |-> <<>>, sidecar |-> sidecar]).engines
    /\ last' = [Last("init", "", <<>>, 0, FALSE, TRUE, "", <<>>)
                   EXCEPT !.cached_before = {}]
    /\ UNCHANGED <<dirs, sidecar, diskFull, bmVars, ccVars>>

\* The novel directory is replaced, created or removed; the index file lives
\* inside it and goes with it.
EnvSetDir(c) ==
    /\ \E d \in DirStates(c) :
          /\ d # dirs[c]
          /\ dirs' = [dirs EXCEPT ![c] = d]
          /\ sidecar' = [sidecar EXCEPT ![c] = IF d.exists /\ dirs[c].exists THEN @ ELSE NoFile]
    /\ last' = Last("env", c, <<>>, 0, FALSE, TRUE, "", <<>>)
    /\ UNCHANGED <<diskFull, engines, bmVars, ccVars>>

EnvCorrupt(c) ==
    /\ sidecar[c].kind = "json"
    /\ sidecar' = [sidecar EXCEPT ![c] = CorruptFile]
    /\ last' = Last("env", c, <<>>, 0, FALSE, TRUE, "", <<>>)
    /\ UNCHANGED <<dirs, diskFull, engines, bmVars, ccVars>>

\* Another process running the same program builds the index of c from the
\* directory as it is now and writes it to c's index file.
EnvWriteIndex(c) ==
    /\ dirs[c].exists /\ ~diskFull
    /\ ReadDocuments(c) # <<>>
    /\ sidecar[c] # save(fit(SimpleBM25(K1Default, BDefault), ReadDocuments(c)))
    /\ sidecar' = [sidecar EXCEPT
                      ![c] = save(fit(SimpleBM25(K1Default, BDefault), ReadDocuments(c)))]
    /\ last' = Last("env", c, <<>>, 0, FALSE, TRUE, "", <<>>)
    /\ UNCHANGED <<dirs, diskFull, engines, bmVars, ccVars>>

EnvDisk ==
    /\ diskFull' = ~diskFull
    /\ last' = Last("env", "", <<>>, 0, FALSE, TRUE, "", <<>>)
    /\ UNCHANGED <<dirs, sidecar, engines, bmVars, ccVars>>

Next ==
    \/ \E c \in Novels : Build(c)
    \/ \E c \in Novels : Query(c)
    \/ SearchAll
    \/ Discover
    \/ Restart
    \/ \E c \in Novels : EnvSetDir(c)
    \/ \E c \in Novels : EnvCorrupt(c)
    \/ \E c \in Novels : EnvWriteIndex(c)
    \/ EnvDisk

Spec == Init /\ [][Next]_vars

(***************************************************************************)
(* Specification of the manager on an undisturbed disk: every read and     *)
(* write succeeds and nothing but the manager touches an index file.  The  *)
(* environment still creates novel directories and changes the files of an *)
(* existing one.                                                           *)
(***************************************************************************)
EnvTexts(c) ==
    /\ EnvSetDir(c)
    /\ dirs[c].exists => dirs'[c].exists

NextUndisturbed ==
    \/ \E c \in Novels : Build(c)
    \/ \E c \in Novels : Query(c)
    \/ SearchAll
    \/ Discover
    \/ Restart
    \/ \E c \in Novels : EnvTexts(c)

SpecUndisturbed == Init /\ [][NextUndisturbed]_vars

(***************************************************************************)
(* Specification of one manager shared by threads.  One thread runs        *)
(* search_all, and for every novel c a thread runs build_novel_index(c) or *)
(* query(c, ...).  Callers hold one lock per novel name: the caller of     *)
(* search_all holds the locks of the novels that are cached when it calls, *)
(* the caller of build or query holds the lock of its novel.  The          *)
(* interpreter switches threads between statements: search_all is cut at   *)
(* lines 228, 230 and at every step of the loop of line 237, build and     *)
(* query before the assignment that puts the engine in the dict.  The disk *)
(* does not change under the threads and every write succeeds.             *)
(***************************************************************************)
QAIdle == [pc |-> "idle", held |-> {}, query |-> <<>>, top_k |-> 0,
           size |-> 0, pos |-> 0, results |-> <<>>]

WIdle == [pc |-> "idle", op |-> "", query |-> <<>>,
          engine |-> SimpleBM25(K1Default, BDefault)]

InitConc ==
    /\ dirs \in {f \in [Novels -> UNION {DirStates(c) : c \in Novels}] :
                  \A c \in Novels : f[c] \in DirStates(c)}
    /\ sidecar = [c \in Novels |-> NoFile]
    /\ diskFull = FALSE
    /\ engines = <<>>
    /\ last = [op |-> "init", novel |-> "", query |-> <<>>, top_k |-> 0, raised |-> FALSE,
               ok |-> TRUE, msg |-> "", results |-> <<>>,
               cached_before |-> {}, sidecar_before |-> {}]
    /\ qa = QAIdle
    /\ wk = [c \in Novels |-> WIdle]
    /\ BMIdle

\* Lines 226-228: search_all is called and runs its discovery pass.
QACall ==
    /\ qa.pc = "idle"
    /\ \A c \in Keys(engines) : wk[c].pc = "idle"
    /\ \E q \in MMQueries, items \in IterDirs :
          /\ engines' = Discovered(Self, items).engines
          /\ qa' = [QAIdle EXCEPT !.pc = "preloaded", !.held = Keys(engines),
                                  !.query = q, !.top_k = MaxTopK]
    /\ UNCHANGED <<dirs, sidecar, diskFull, last, wk, bmVars>>

\* The manager after lines 230-235, and the dict iterator of line 237, which
\* remembers the size of the dict it was created on.
Entered(out) ==
    /\ engines' = out.self.engines
    /\ sidecar' = out.self.sidecar
    /\ qa' = [qa EXCEPT !.pc = "iter", !.size = Len(out.self.engines), !.pos = 0]

\* Lines 230-237: build everything when nothing is cached, then start the loop
\* over the dict.
QAEnter ==
    /\ qa.pc = "preloaded"
    /\ \E items \in IterDirs : Entered(BuildIfEmpty(Self, items, FALSE))
    /\ UNCHANGED <<dirs, diskFull, last, wk, bmVars>>

\* Lines 237-243: one step of "for novel_name in self.engines".  The iterator
\* raises RuntimeError (dictionary changed size during iteration) when the dict
\* no longer has the size it had when the loop began; when the keys are
\* exhausted the results are sorted, cut and returned; otherwise the next novel
\* is queried.
QANext ==
    /\ qa.pc = "iter"
    /\ IF Len(engines) # qa.size
       THEN /\ qa' = QAIdle
            /\ last' = Last("search_all", "", qa.query, qa.top_k, TRUE, FALSE,
                             "RuntimeError", <<>>)
       ELSE IF qa.pos = qa.size
       THEN /\ qa' = QAIdle
            /\ last' = Last("search_all", "", qa.query, qa.top_k, FALSE, TRUE, "",
                             SortAndCut(QueryOutcome(FALSE, qa.results, Self),
                                        qa.top_k).results)
       ELSE /\ qa' = [qa EXCEPT
                         !.pos = @ + 1,
                         !.results = @ \o query(Self, engines[qa.pos + 1].name,
                                                qa.query, qa.top_k, FALSE).results]
            /\ UNCHANGED last
    /\ UNCHANGED <<dirs, sidecar, diskFull, engines, wk, bmVars>>

Prepared(ok, msg, engine, file) == [ok |-> ok, msg |-> msg, engine |-> engine, file |-> file]

\* Lines 183-187: the fitted engine and the file save writes for it.
Saved(engine) == Prepared(TRUE, "Indexed chapters", engine, save(engine))

\* What a thread has in hand when it reaches the assignment to self.engines:
\* for query the engine loaded from the index file when there is one (lines
\* 196-199), otherwise the engine build fitted and saved (lines 153-187), or
\* the failure build returns.
Prepare(c, loadFirst) ==
    IF loadFirst /\ sidecar[c].kind = "json"
    THEN Prepared(TRUE, "loaded", load(SimpleBM25(K1Default, BDefault), sidecar[c]),
                  sidecar[c])
    ELSE IF ~dirs[c].exists
    THEN Prepared(FALSE, "Novel directory not found", SimpleBM25(K1Default, BDefault),
                  sidecar[c])
    ELSE IF ReadDocuments(c) = <<>>
    THEN Prepared(FALSE, "No documents found", SimpleBM25(K1Default, BDefault),
                  sidecar[c])
    ELSE Saved(fit(SimpleBM25(K1Default, BDefault), ReadDocuments(c)))

\* The thread stands before the assignment, or the call has returned failure.
WPrepared(c, op, q, p) ==
    /\ sidecar' = [sidecar EXCEPT ![c] = p.file]
    /\ IF p.ok
       THEN /\ wk' = [wk EXCEPT ![c] = [pc |-> "install", op |-> op, query |-> q,
                                        engine |-> p.engine]]
            /\ UNCHANGED last
       ELSE /\ last' = Last(op, c, q, MaxTopK, FALSE, FALSE, p.msg, <<>>)
            /\ UNCHANGED wk

\* build_novel_index(c) or query(c, q, MaxTopK) is called by a thread that
\* holds the lock of c.  A query of a cached novel searches and returns.
WCall(c) ==
    /\ wk[c].pc = "idle"
    /\ c \notin qa.held
    /\ \E op \in {"build", "query"}, q \in MMQueries :
          IF op = "query" /\ c \in Keys(engines)
          THEN /\ last' = Last("query", c, q, MaxTopK, FALSE, TRUE, "",
                               query(Self, c, q, MaxTopK, FALSE).results)
               /\ UNCHANGED <<sidecar, wk>>
          ELSE WPrepared(c, op, q, Prepare(c, op = "query"))
    /\ UNCHANGED <<dirs, diskFull, engines, qa, bmVars>>

\* Line 188 or line 200: self.engines[novel_name] = engine, and the rest of
\* the call.
WInstall(c) ==
    /\ wk[c].pc = "install"
    /\ engines' = DictSet(engines, c, wk[c].engine)
    /\ wk' = [wk EXCEPT ![c] = WIdle]
    /\ last' = IF wk[c].op = "build"
               THEN Last("build", c, wk[c].query, MaxTopK, FALSE, TRUE,
                         "Indexed chapters", <<>>)
               ELSE Last("query", c, wk[c].query, MaxTopK, FALSE, TRUE, "",
                         Formatted(c, search(wk[c].engine, wk[c].query, MaxTopK)))
    /\ UNCHANGED <<dirs, sidecar, diskFull, qa, bmVars>>

NextConc ==
    \/ QACall
    \/ QAEnter
    \/ QANext
    \/ \E c \in Novels : WCall(c)
    \/ \E c \in Novels : WInstall(c)

SpecConc == InitConc /\ [][NextConc]_vars

(***************************************************************************)
(* Properties of the manager (checked under Spec).                         *)
(***************************************************************************)
Fresh == SimpleBM25(K1Default, BDefault)

\* The files of novel c that end in .txt and can be read.
ReadableTxt(c) ==
    {i \in DOMAIN dirs[c].files : dirs[c].files[i].txt /\ dirs[c].files[i].readable}

FileDoc(c, i) ==
    Doc(c, dirs[c].files[i].sub, dirs[c].files[i].name, dirs[c].files[i].content)

\* C4: postcondition of a successful build.  When build(c) returns success the
\* cache entry of c is an index fitted over exactly the readable .txt files
\* found recursively under c's directory, one document per file; the index
\* file of c encodes that same index; whatever was cached for c before is gone.
C4_BuildPost ==
    (last.op = "build" /\ ~last.raised /\ last.ok) =>
        LET c == last.novel
            e == DictGet(engines, c)
        IN  /\ c \in Keys(engines)
            /\ e.doc_count = Cardinality(ReadableTxt(c))
            /\ Len(e.documents) = e.doc_count
            /\ \A i \in ReadableTxt(c) : FileDoc(c, i) \in Range(e.documents)
            /\ e = fit(Fresh, e.documents)
            /\ sidecar[c].kind = "json"
            /\ load(Fresh, sidecar[c]) = e

\* A rebuild of a cached novel whose directory holds a nested file and an
\* unreadable one.
C4_Witness ==
    /\ last.op = "build" /\ ~last.raised /\ last.ok
    /\ last.novel \in last.cached_before
    /\ dirs[last.novel] = DirTwo
    /\ DictGet(engines, last.novel).doc_count = 2

\* C5: failure outcomes of build.  build(c) returns a failure outcome with a
\* "not found" reason when c's directory does not exist, with a "no documents"
\* reason when the directory yields no text-file document, and in every other
\* case it returns a success outcome.
C5_BuildOutcomes ==
    last.op = "build" =>
        /\ ~last.raised
        /\ IF ~dirs[last.novel].exists
           THEN ~last.ok /\ last.msg = "Novel directory not found"
           ELSE IF ReadableTxt(last.novel) = {}
           THEN ~last.ok /\ last.msg = "No documents found"
           ELSE last.ok

\* C6: a failed build changes nothing.  A build that returns failure leaves
\* the cache and every index file as they were.
C6_FailedBuildFrame ==
    [][(last'.op = "build" /\ ~last'.raised /\ ~last'.ok) =>
          (engines' = engines /\ sidecar' = sidecar)]_vars

\* A build failed for a novel that was cached, and the entry is still there.
C6_Witness ==
    /\ last.op = "build" /\ ~last.raised /\ ~last.ok
    /\ last.novel \in last.cached_before
    /\ last.novel \in Keys(engines)
    /\ last.msg = "No documents found"

\* C7: on-demand path of query.  For a novel c that is not cached, query loads
\* the index file when one exists and otherwise builds c; when an index is
\* obtained c is cached afterwards and the result is that index's search
\* result; when none is obtained query returns an empty result, does not
\* raise, and leaves the cache unchanged.
C7_QueryOnDemand ==
    [][(last'.op = "query" /\ last'.novel \notin Keys(engines)) =>
          LET c == last'.novel
              e == DictGet(engines', c)
          IN  /\ ~last'.raised
              /\ c \in Keys(engines') =>
                    /\ IF sidecar[c].kind = "json" THEN e = load(Fresh, sidecar[c])
                       ELSE /\ sidecar[c].kind = "absent"
                            /\ e.doc_count = Cardinality(ReadableTxt(c))
                            /\ \A i \in ReadableTxt(c) : FileDoc(c, i) \in Range(e.documents)
                            /\ e = fit(Fresh, e.documents)
                    /\ last'.results =
                          Formatted(c, search(e, last'.query, last'.top_k))
              /\ c \notin Keys(engines') => (last'.results = <<>> /\ engines' = engines)]_vars

\* C8: a corrupt index file is treated as no persisted index.  When c is not
\* cached and its index file exists but cannot be parsed, query falls through
\* to the on-demand build of c and does not propagate the load error: with
\* writes succeeding it does not raise, and c is cached afterwards exactly when
\* its directory has a readable text file.
C8_CorruptSidecar ==
    [][(/\ last'.op = "query"
        /\ last'.novel \notin Keys(engines)
        /\ sidecar[last'.novel].kind = "corrupt"
        /\ ~diskFull) =>
          /\ ~last'.raised
          /\ (last'.novel \in Keys(engines')) = (ReadableTxt(last'.novel) # {})]_vars

\* C9: queryAll builds every missing index.  After queryAll returns, every
\* novel directory that had no index file but holds a readable text file is
\* cached, whether or not other novels were cached when it was called.
C9_BuildsEveryMissing ==
    [][(last'.op = "search_all" /\ ~last'.raised) =>
          \A c \in Novels :
              (dirs[c].exists /\ sidecar[c].kind = "absent" /\ ReadableTxt(c) # {})
                  => c \in Keys(engines')]_vars

\* C9 as amended: queryAll builds missing indexes only when nothing is cached
\* after its discovery pass.  After queryAll returns: if no novel was cached
\* when it was called and no index file could be loaded, every novel directory
\* that had no index file but holds a readable text file is cached; otherwise
\* the cache holds what it held before plus the novels whose index file was
\* loaded, and nothing was built.
C9_BuildsWhenEmpty ==
    [][(last'.op = "search_all" /\ ~last'.raised) =>
          LET loadable == {c \in Novels : sidecar[c].kind = "json"}
          IN  IF engines = <<>> /\ loadable = {}
              THEN \A c \in Novels :
                      (dirs[c].exists /\ sidecar[c].kind = "absent" /\ ReadableTxt(c) # {})
                          => c \in Keys(engines')
              ELSE /\ Keys(engines') = Keys(engines) \cup loadable
                   /\ \A c \in Novels \ loadable : sidecar'[c] = sidecar[c]]_vars

\* queryAll was called with nothing cached and no index file on disk, and both
\* novels are cached afterwards.
C9_Witness ==
    /\ last.op = "search_all" /\ ~last.raised
    /\ last.cached_before = {}
    /\ last.sidecar_before = {}
    /\ Keys(engines) = Novels

\* C10: queryAll aggregation.  For topK >= 1 the result of queryAll is the
\* concatenation of query(c, q, topK) over the cached novels, ordered by
\* non-increasing score and cut to topK: it has min(topK, total) records, each
\* from some cached novel's own result, and no record left out scores higher
\* than one returned; two novels with one match each both appear when topK >= 2.
C10_Aggregation ==
    (last.op = "search_all" /\ ~last.raised /\ last.top_k >= 1) =>
        LET per == [i \in DOMAIN engines |->
                       query(Self, engines[i].name, last.query, last.top_k, FALSE).results]
            all == Concat(per)
            res == last.results
        IN  /\ Len(res) = Min(last.top_k, Len(all))
            /\ \A j \in 1..(Len(res) - 1) : res[j].score >= res[j + 1].score
            /\ \A j \in DOMAIN res : \E i \in DOMAIN per : res[j] \in Range(per[i])
            /\ \A i, j \in DOMAIN res : i # j => res[i] # res[j]
            /\ \A a \in Range(all) :
                  a \notin Range(res) => \A j \in DOMAIN res : a.score <= res[j].score

\* queryAll with topK = 2 returned one record from each of two novels.
C10_Witness ==
    /\ last.op = "search_all" /\ ~last.raised
    /\ last.top_k = 2
    /\ Len(last.results) = 2
    /\ last.results[1].novel # last.results[2].novel

\* C11: a missing directory degrades to an empty result.  In every reachable
\* state, also when the novel was built and cached before its directory was
\* removed, query(c, q, k) for a novel c whose directory is absent returns an
\* empty result without raising, and queryAll returns no record of such a novel.
C11_AbsentDirEmpty ==
    /\ (last.op = "query" /\ ~dirs[last.novel].exists) =>
           (~last.raised /\ last.results = <<>>)
    /\ (last.op = "search_all" /\ ~last.raised) =>
           \A i \in DOMAIN last.results : dirs[last.results[i].novel].exists

\* C11 as amended: a missing directory degrades to an empty result for a novel
\* that is not cached.  query(c, q, k) for a novel c that is not cached and
\* whose directory is absent returns an empty result without raising and leaves
\* c uncached, and queryAll returns no record of such a novel; a novel that is
\* cached keeps answering from its cached index after its directory is removed.
C11_AbsentUncachedEmpty ==
    /\ (last.op = "query" /\ ~dirs[last.novel].exists) =>
           /\ ~last.raised
           /\ IF last.novel \in last.cached_before
              THEN /\ last.novel \in Keys(engines)
                   /\ last.results =
                         Formatted(last.novel,
                                   search(DictGet(engines, last.novel),
                                          last.query, last.top_k))
              ELSE last.results = <<>> /\ last.novel \notin Keys(engines)
    /\ (last.op = "search_all" /\ ~last.raised) =>
           \A i \in DOMAIN last.results :
               \/ dirs[last.results[i].novel].exists
               \/ last.results[i].novel \in last.cached_before

\* query was called for a novel that was not cached and has no directory, while
\* the other novel was cached.
C11_Witness ==
    /\ last.op = "query" /\ ~last.raised
    /\ ~dirs[last.novel].exists
    /\ last.novel \notin last.cached_before
    /\ last.cached_before # {}
    /\ last.results = <<>>

\* C12: failure isolation in the discovery pass.  In a pass of _preload_indices
\* (at construction, when called on the running manager, and at the start of
\* queryAll) an index file that fails to load affects only its own novel: that
\* novel stays uncached if it was uncached and keeps its old index if it was
\* cached; the pass does not raise, writes nothing, and every novel whose index
\* file loads is cached afterwards with the index decoded from that file.
C12_DiscoverIsolation ==
    [][/\ (last'.op \in {"init", "discover"}) =>
            LET before == IF last'.op = "init" THEN <<>> ELSE engines
            IN  /\ ~last'.raised
                /\ sidecar' = sidecar
                /\ \A c \in Novels :
                      /\ sidecar[c].kind = "corrupt" =>
                            /\ (c \in Keys(engines')) = (c \in Keys(before))
                            /\ c \in Keys(before) =>
                                  DictGet(engines', c) = DictGet(before, c)
                      /\ sidecar[c].kind = "json" =>
                            /\ c \in Keys(engines')
                            /\ DictGet(engines', c) = load(Fresh, sidecar[c])
       /\ (last'.op = "search_all" /\ ~diskFull) =>
            /\ ~last'.raised
            /\ \A c \in Novels :
                  /\ (sidecar[c].kind = "corrupt" /\ c \in Keys(engines)) =>
                        DictGet(engines', c) = DictGet(engines, c)
                  /\ sidecar[c].kind = "json" =>
                        /\ c \in Keys(engines')
                        /\ DictGet(engines', c) = load(Fresh, sidecar[c])]_vars

\* A pass on the running manager met an unparseable index file of a cached
\* novel and a loadable one of the other novel; both novels are cached.
C12_Witness ==
    /\ last.op = "discover" /\ ~last.raised
    /\ \E c, d \in Novels :
          /\ c # d
          /\ sidecar[c].kind = "corrupt" /\ c \in last.cached_before
          /\ c \in Keys(engines)
          /\ sidecar[d].kind = "json" /\ d \in Keys(engines)

\* C13: no eviction.  A call of discover, build, query or queryAll, successful
\* or not, removes no key from the cache; a key that enters the cache does so
\* by a successful load of the novel's index file (the entry is the decoded
\* file) or by a successful build (the entry is fitted over the novel's
\* documents and written to the index file).
C13_NoEviction ==
    [][(last'.op \in {"discover", "build", "query", "search_all"}) =>
          /\ Keys(engines) \subseteq Keys(engines')
          /\ \A c \in Keys(engines') \ Keys(engines) :
                LET e == DictGet(engines', c)
                IN  \/ /\ sidecar[c].kind = "json"
                       /\ e = load(Fresh, sidecar[c])
                       /\ sidecar'[c] = sidecar[c]
                    \/ /\ ReadableTxt(c) # {}
                       /\ ~diskFull
                       /\ e = fit(Fresh, ReadDocuments(c))
                       /\ sidecar'[c] = save(e)]_vars

\* A rebuild of a cached novel raised on the write, and the novel is still
\* cached.
C13_Witness ==
    /\ last.op = "build" /\ last.raised
    /\ last.novel \in last.cached_before
    /\ last.novel \in Keys(engines)

\* C14: a cached entry is overwritten only by an explicit rebuild.  When novel
\* c is cached, a call of query, queryAll or discover leaves the entry of c as
\* it is; only build(c) replaces it.
C14_OnlyRebuildOverwrites ==
    [][(last'.op \in {"query", "search_all", "discover"}) =>
          \A c \in Keys(engines) :
              /\ c \in Keys(engines')
              /\ DictGet(engines', c) = DictGet(engines, c)]_vars

(***************************************************************************)
(* Further properties of the index (checked under SpecBM25).               *)
(***************************************************************************)
\* C15: search never divides by zero.  An index fitted over no document has
\* avgdl = 0, document count 0 and an empty IDF table, and search on it returns
\* the empty sequence; an index fitted over one or more documents gives every
\* document a token length >= 1, also for empty or punctuation-only content,
\* hence avgdl >= 1, so the division by avgdl in search is defined.
C15_NoDivisionByZero ==
    /\ Len(bm.doc_lengths) = bm.doc_count
    /\ bm.doc_count = 0 =>
          /\ bm.avgdl = 0
          /\ DOMAIN bm.idf = {}
          /\ ret.op = "search" => ret.results = <<>>
    /\ bm.doc_count > 0 =>
          /\ \A i \in 1..bm.doc_count : bm.doc_lengths[i] >= 1
          /\ bm.avgdl >= Scale
          /\ bm.avgdl * bm.doc_count <= SumSeq(bm.doc_lengths) * Scale

\* A query of punctuation only was scored against an index whose only document
\* is punctuation only, and matched it.
C15_Witness ==
    /\ ret.op = "search" /\ ret.query = txtDot
    /\ bm.doc_count = 1
    /\ bm.documents[1].content = txtDot
    /\ bm.doc_lengths = <<1>>
    /\ Len(ret.results) = 1

\* The text with every non-word character removed.
RECURSIVE Strip(_)
Strip(text) ==
    IF text = <<>> THEN <<>>
    ELSE (IF Head(text) \in WordChars THEN <<Head(text)>> ELSE <<>>) \o Strip(Tail(text))

\* C16: tokenizer output shape.  With S the text after removing the non-word
\* characters and L its length, tokenize returns the one-element sequence <<S>>
\* when L < 2 (so one empty token for empty or punctuation-only text, never the
\* empty sequence), and otherwise L - 1 tokens, the i-th being S[i], S[i+1], in
\* order and with duplicates kept; tokenizing the same text again gives the same
\* sequence.
C16_TokenizerShape ==
    ret.op = "tokenize" =>
        LET S == Strip(ret.query)
            L == Len(S)
            tokens == ret.results
        IN  /\ tokens # <<>>
            /\ IF L < 2 THEN tokens = <<S>>
               ELSE /\ Len(tokens) = L - 1
                    /\ \A i \in 1..(L - 1) : tokens[i] = <<S[i], S[i + 1]>>
            /\ tokenize(ret.query) = tokens

\* A text with a repeated bigram was tokenized and both occurrences are there.
C16_Witness ==
    /\ ret.op = "tokenize"
    /\ Len(ret.results) = 3
    /\ ret.results[1] = ret.results[3]

\* C17: ranking is monotone in term frequency.  For two documents A and B of
\* one index with the same token length and equal counts of every query token
\* except one token t that A holds more often than B, score(A) >= score(B) for
\* that query, and search never places A below B.
C17_TfMonotone ==
    \A q \in Queries :
        LET terms == tokenize(q)
            Count(i, t) == CounterGet(bm.doc_term_counts[i], t)
            MoreOf(i, j) ==
                \E t \in Range(terms) :
                    /\ Count(i, t) > Count(j, t)
                    /\ \A u \in Range(terms) \ {t} : Count(i, u) = Count(j, u)
            res == ret.results
        IN  \A i, j \in 1..bm.doc_count :
                (bm.doc_lengths[i] = bm.doc_lengths[j] /\ MoreOf(i, j)) =>
                    /\ Score(bm, i, terms) >= Score(bm, j, terms)
                    /\ (ret.op = "search" /\ ret.query = q) =>
                          \A n \in DOMAIN res :
                              res[n].doc = bm.documents[j] =>
                                  \E m \in 1..(n - 1) : res[m].doc = bm.documents[i]

\* A search ranked the later document first: it holds one query token twice,
\* the earlier document of the same length holds it once.
C17_Witness ==
    /\ ret.op = "search" /\ ret.query = txtBAB
    /\ bm.doc_count = 2
    /\ bm.doc_lengths = <<3, 3>>
    /\ CounterGet(bm.doc_term_counts[1], txtAB) = 1
    /\ CounterGet(bm.doc_term_counts[2], txtAB) = 2
    /\ Len(ret.results) = 2
    /\ ret.results[1].doc = bm.documents[2]
    /\ ret.results[1].score > ret.results[2].score

\* C18: IDF bounds.  After fit over N documents the IDF table holds the tokens
\* of the documents; every term t in it has 1 <= df(t) <= N, the argument
\* (N - df + 0.5) / (df + 0.5) + 1 of the logarithm is >= 1, and IDF(t) is the
\* logarithm of that argument and is >= 0.
C18_IdfBounds ==
    LET N == bm.doc_count
        half == Scale \div 2
        Df(t) == Cardinality({i \in 1..N : t \in DOMAIN bm.doc_term_counts[i]})
        Arg(t) == (((N - Df(t)) * Scale + half) * Scale) \div (Df(t) * Scale + half) + Scale
    IN  /\ DOMAIN bm.idf =
              UNION {Range(tokenize(bm.documents[i].content)) : i \in 1..N}
        /\ \A t \in DOMAIN bm.idf :
              /\ 1 <= Df(t) /\ Df(t) <= N
              /\ Arg(t) >= Scale
              /\ bm.idf[t] = Ln(Arg(t))
              /\ bm.idf[t] >= 0

\* A term held by every one of the documents of the index: its IDF is the
\* smallest the formula gives, and still positive.
C18_Witness ==
    /\ bm.doc_count = MaxDocs
    /\ \E t \in DOMAIN bm.idf :
          /\ \A i \in 1..bm.doc_count : t \in DOMAIN bm.doc_term_counts[i]
          /\ bm.idf[t] > 0
          /\ \A u \in DOMAIN bm.idf : bm.idf[u] >= bm.idf[t]

(***************************************************************************)
(* Further properties of the manager (checked under Spec).                 *)
(***************************************************************************)
\* C19: result records of query.  query(c, q, k) returns one record per result
\* of the search of c's index, in the same order, each with the search score,
\* novel = c, the document's file name and relative path, and as preview the
\* first min(200, length) characters of the content followed by "...", also
\* when the content is shorter than 200 characters; no preview is longer than
\* 203 characters.
C19_ResultRecords ==
    (last.op = "query" /\ ~last.raised /\ last.novel \in Keys(engines)) =>
        LET c == last.novel
            found == search(DictGet(engines, c), last.query, last.top_k)
            res == last.results
        IN  /\ Len(res) = Len(found)
            /\ \A i \in DOMAIN res :
                  LET content == found[i].doc.content
                      n == Min(PreviewLen, Len(content))
                  IN  /\ res[i].score = found[i].score
                      /\ res[i].novel = c
                      /\ res[i].filename = found[i].doc.meta.filename
                      /\ res[i].path = found[i].doc.meta.path
                      /\ res[i].path[1] = c
                      /\ Len(res[i].preview) = n + 3
                      /\ SubSeq(res[i].preview, 1, n) = SubSeq(content, 1, n)
                      /\ SubSeq(res[i].preview, n + 1, n + 3) = <<".", ".", ".">>
                      /\ Len(res[i].preview) <= PreviewLen + 3

\* query returned two records: the preview of one is a chapter of 201
\* characters cut to 200 plus the marker, the other a chapter of 2 characters
\* plus the marker.
C19_Witness ==
    /\ last.op = "query" /\ ~last.raised
    /\ Len(last.results) = 2
    /\ \E i, j \in DOMAIN last.results :
          /\ Len(last.results[i].preview) = PreviewLen + 3
          /\ last.results[j].preview = txtAB \o <<".", ".", ".">>

(***************************************************************************)
(* Property of the manager shared by threads (checked under SpecConc).     *)
(***************************************************************************)
\* C20: one lock per novel name is enough.  With callers holding one lock per
\* novel name and calls for different novels otherwise interleaving freely, no
\* call ends in a fault; in particular a queryAll that is iterating the cache
\* while a build or an on-demand query puts in the entry of another novel, not
\* cached before, returns normally.
C20_PerKeyLocksSuffice == ~last.raised

(***************************************************************************)
(* Properties of error handling in the manager (checked under Spec).       *)
(***************************************************************************)
\* C21: a failed write of the index file is absorbed.  When the write of the
\* index file fails during build(c), build does not raise but returns a
\* (success, message) outcome, and a query or queryAll that triggered the build
\* returns a result instead of passing the failure on.
C21_WriteFailureAbsorbed ==
    /\ last.op = "build" => ~last.raised
    /\ (last.op = "query" /\ last.novel \notin last.sidecar_before) => ~last.raised
    /\ last.op = "search_all" => ~last.raised

\* C22: an unreadable source file is skipped.  When some .txt files of novel c
\* cannot be read, build(c) indexes exactly the readable ones: it succeeds when
\* at least one .txt file was readable, the cached index then holding one
\* document per readable file, and it reports "No documents found" only when
\* none was.
C22_UnreadableSkipped ==
    (last.op = "build" /\ dirs[last.novel].exists) =>
        LET c == last.novel
        IN  IF ReadableTxt(c) = {}
            THEN ~last.raised /\ ~last.ok /\ last.msg = "No documents found"
            ELSE /\ ~last.raised /\ last.ok
                 /\ c \in Keys(engines)
                 /\ DictGet(engines, c).documents = ReadDocuments(c)
                 /\ \A i \in DOMAIN dirs[c].files :
                       (dirs[c].files[i].txt /\ ~dirs[c].files[i].readable) =>
                           \A j \in DOMAIN DictGet(engines, c).documents :
                               DictGet(engines, c).documents[j].meta.filename
                                   # dirs[c].files[i].name

(***************************************************************************)
(* Further properties of the index (checked under SpecBM25).               *)
(***************************************************************************)
\* C23: a non-positive top_k yields nothing.  For every built index and query,
\* search(Q, top_k) with top_k <= 0 returns the empty sequence.
C23_NonPositiveTopK ==
    (ret.op = "search" /\ ret.top_k <= 0) => ret.results = <<>>

\* C24: a built index is immutable under reads.  search and save leave every
\* field of the index as it was (k1, b, avgdl, document count, IDF table,
\* document lengths, documents, term counts: the read of a query token a
\* document lacks adds no entry to its term counts), so the file saved earlier
\* still decodes to the index, and a search gives the same result after any
\* number of searches and saves.
C24_ImmutableUnderReads ==
    [][/\ bm' = bm
       /\ path'.kind = "json" => load(SimpleBM25(K1Default, BDefault), path') = bm'
       /\ ret'.op = "search" =>
             ret'.results = search(bm', ret'.query, ret'.top_k)]_vars

\* The index was saved and searched with a query token that is in the IDF table
\* and that one of its documents lacks.
C24_Witness ==
    /\ path.kind = "json"
    /\ ret.op = "search"
    /\ \E i \in 1..bm.doc_count, t \in Range(tokenize(ret.query)) :
          /\ t \in DOMAIN bm.idf
          /\ t \notin DOMAIN bm.doc_term_counts[i]

\* The fields of index e are a consistent snapshot of its documents.
Consistent(e) ==
    LET N == e.doc_count
        Tokens(i) == tokenize(e.documents[i].content)
        Df(t) == Cardinality({i \in 1..N : t \in Range(Tokens(i))})
        half == Scale \div 2
    IN  /\ N = Len(e.documents)
        /\ N = Len(e.doc_lengths)
        /\ N = Len(e.doc_term_counts)
        /\ \A i \in 1..N :
              /\ e.doc_lengths[i] = Len(Tokens(i))
              /\ DOMAIN e.doc_term_counts[i] = Range(Tokens(i))
              /\ \A t \in Range(Tokens(i)) :
                    e.doc_term_counts[i][t] =
                        Cardinality({n \in DOMAIN Tokens(i) : Tokens(i)[n] = t})
              /\ e.doc_lengths[i] =
                    SumSeq([n \in 1..Len(DictItems(e.doc_term_counts[i])) |->
                               DictItems(e.doc_term_counts[i])[n][2]])
        /\ IF N = 0 THEN e.avgdl = 0
           ELSE /\ e.avgdl * N <= SumSeq(e.doc_lengths) * Scale
                /\ SumSeq(e.doc_lengths) * Scale < (e.avgdl + 1) * N
        /\ DOMAIN e.idf = UNION {Range(Tokens(i)) : i \in 1..N}
        /\ \A t \in DOMAIN e.idf :
              e.idf[t] = Ln((((N - Df(t)) * Scale + half) * Scale)
                              \div (Df(t) * Scale + half) + Scale)

\* C25: snapshot consistency of a built index.  After fit(D), and after loading
\* a file written by save, the document count is |D|, the number of lengths and
\* the number of term-count tables; every document's length is its token count
\* and the sum of its term counts; avgdl is the sum of the lengths divided by
\* the document count; the keys of the IDF table are the terms of the documents
\* and each IDF value is the one of df(t), the number of documents holding t.
C25_SnapshotConsistency ==
    /\ Consistent(bm)
    /\ otherState # "new" => Consistent(other)

\* An index with a repeated token in one document was saved and loaded over an
\* object fitted before.
C25_Witness ==
    /\ otherState = "loaded over fit"
    /\ other.doc_count = MaxDocs
    /\ \E i \in 1..other.doc_count :
          \E t \in DOMAIN other.doc_term_counts[i] : other.doc_term_counts[i][t] = 2

(***************************************************************************)
(* Properties of the manager on an undisturbed disk (checked under         *)
(* SpecUndisturbed).                                                       *)
(***************************************************************************)
\* C26: cache and index file agree.  In every state reached by construction,
\* build, query and queryAll, with all I/O succeeding and no index file touched
\* from outside, every cached novel has an index file, and the file decodes to
\* an index equal to the cached one in every field: the cache never holds an
\* index that was not persisted.
C26_CacheMatchesSidecar ==
    \A c \in Keys(engines) :
        /\ sidecar[c].kind = "json"
        /\ load(Fresh, sidecar[c]) = DictGet(engines, c)
        /\ \A q \in MMQueries, k \in MMTopKs :
              search(load(Fresh, sidecar[c]), q, k) = search(DictGet(engines, c), q, k)

\* A cached novel whose files have changed since it was built: cache and index
\* file still hold the index of the build, and queryAll has just run.
C26_Witness ==
    /\ last.op = "search_all" /\ ~last.raised
    /\ \E c \in Keys(engines) :
          /\ dirs[c].exists
          /\ DictGet(engines, c).documents # ReadDocuments(c)
          /\ sidecar[c].kind = "json"

RaceIdleQ == [pc |-> "idle", novel |-> "", query |-> <<>>, top_k |-> 0,
              engine |-> Fresh, n |-> 0, pos |-> 0, scores |-> <<>>, seen |-> {},
              raised |-> FALSE, results |-> <<>>]

RaceIdleB == [pc |-> "idle", documents |-> <<>>, engine |-> Fresh, msg |-> ""]

InitRace ==
    /\ dirs \in {f \in [Novels -> UNION {DirStates(c) : c \in Novels}] :
                  \A c \in Novels : f[c] \in DirStates(c)}
    /\ sidecar = [c \in Novels |-> NoFile]
    /\ diskFull = FALSE
    /\ engines = <<>>
    /\ last = [op |-> "init", novel |-> "", query |-> <<>>, top_k |-> 0, raised |-> FALSE,
               ok |-> TRUE, msg |-> "", results |-> <<>>,
               cached_before |-> {}, sidecar_before |-> {}]
    /\ qa = RaceIdleQ
    /\ wk = [c \in Novels |-> RaceIdleB]
    /\ BMIdle

\* Lines 35-37 of fit: the object once documents, doc_count and doc_lengths
\* have been assigned and nothing else has.
FitBegun(self, documents) ==
    [self EXCEPT !.documents = documents, !.doc_count = Len(documents),
                 !.doc_lengths = <<>>]

\* Lines 153-183: build_novel_index(c) is called, reads the text files and
\* either returns a failure or creates a new SimpleBM25.
RBCall(c) ==
    /\ \A d \in Novels : wk[d].pc = "idle"
    /\ wk' = [wk EXCEPT ![c] =
                 IF ~dirs[c].exists
                 THEN [RaceIdleB EXCEPT !.msg = "Novel directory not found"]
                 ELSE IF ReadDocuments(c) = <<>>
                 THEN [RaceIdleB EXCEPT !.msg = "No documents found"]
                 ELSE [pc |-> "fit", documents |-> ReadDocuments(c),
                       engine |-> SimpleBM25(K1Default, BDefault), msg |-> ""]]
    /\ UNCHANGED <<dirs, sidecar, diskFull, engines, last, qa, bmVars>>

\* Lines 184, 35-37: fit begins on the new object.
RBFitBegin(c) ==
    /\ wk[c].pc = "fit"
    /\ wk' = [wk EXCEPT ![c].pc = "fitting",
                        ![c].engine = FitBegun(@, wk[c].documents)]
    /\ UNCHANGED <<dirs, sidecar, diskFull, engines, last, qa, bmVars>>

\* Lines 38-63: the rest of fit.
RBFitEnd(c) ==
    /\ wk[c].pc = "fitting"
    /\ wk' = [wk EXCEPT ![c].pc = "save", ![c].engine = fit(@, wk[c].documents)]
    /\ UNCHANGED <<dirs, sidecar, diskFull, engines, last, qa, bmVars>>

\* Lines 186-187: the index file is written.
RBSave(c) ==
    /\ wk[c].pc = "save"
    /\ sidecar' = [sidecar EXCEPT ![c] = save(wk[c].engine)]
    /\ wk' = [wk EXCEPT ![c].pc = "install"]
    /\ UNCHANGED <<dirs, diskFull, engines, last, qa, bmVars>>

\* Lines 188-190: self.engines[novel_name] = engine, and the return.
RBInstall(c) ==
    /\ wk[c].pc = "install"
    /\ engines' = DictSet(engines, c, wk[c].engine)
    /\ wk' = [wk EXCEPT ![c] = [RaceIdleB EXCEPT !.msg = "Indexed chapters"]]
    /\ qa' = IF qa.pc \notin {"idle", "returned"} /\ qa.novel = c
             THEN [qa EXCEPT !.seen = @ \cup {wk[c].engine}]
             ELSE qa
    /\ UNCHANGED <<dirs, sidecar, diskFull, last, bmVars>>

\* Lines 192-195: query(c, q, k) is called on a cached novel, so the "load if
\* not cached" block is skipped.
RQCall(c) ==
    /\ qa.pc \in {"idle", "returned"}
    /\ c \in Keys(engines)
    /\ \E q \in MMQueries, k \in 1..MaxTopK :
          qa' = [RaceIdleQ EXCEPT !.pc = "fetch", !.novel = c, !.query = q, !.top_k = k,
                                  !.seen = {DictGet(engines, c)}]
    /\ UNCHANGED <<dirs, sidecar, diskFull, engines, last, wk, bmVars>>

\* Line 207: engine = self.engines[novel_name].
RQFetch ==
    /\ qa.pc = "fetch"
    /\ qa' = [qa EXCEPT !.pc = "search", !.engine = DictGet(engines, qa.novel)]
    /\ UNCHANGED <<dirs, sidecar, diskFull, engines, last, wk, bmVars>>

\* An index re-read from self.engines at every use in place of the local
\* variable.
FetchedAgain(engine, dict, novel_name) == DictGet(dict, novel_name)

\* Lines 207-208: the index search works on is the object bound to the local
\* variable engine, whatever self.engines holds by now.
Fetched(engine, dict, novel_name) == engine

\* Lines 208, 67-70: search is entered; range(self.doc_count) fixes the number
\* of iterations.
RQBegin ==
    /\ qa.pc = "search"
    /\ qa' = [qa EXCEPT !.pc = "loop",
                        !.n = Fetched(qa.engine, engines, qa.novel).doc_count,
                        !.pos = 0, !.scores = <<>>]
    /\ UNCHANGED <<dirs, sidecar, diskFull, engines, last, wk, bmVars>>

\* The loop body of lines 71-85 for document i of index self; the list
\* accesses of lines 72-73 raise IndexError past the end of the lists.
Scored(self, i, query_text, scores) ==
    IF i > Len(self.doc_lengths) \/ i > Len(self.doc_term_counts)
       \/ i > Len(self.documents)
    THEN [raised |-> TRUE, scores |-> scores]
    ELSE [raised |-> FALSE,
          scores |-> IF Score(self, i, tokenize(query_text)) > 0
                     THEN Append(scores, [score |-> Score(self, i, tokenize(query_text)),
                                          doc |-> self.documents[i]])
                     ELSE scores]

\* The query thread after one pass of the loop body.
RQScored(out) ==
    IF out.raised
    THEN qa' = [qa EXCEPT !.pc = "returned", !.raised = TRUE]
    ELSE qa' = [qa EXCEPT !.pos = @ + 1, !.scores = out.scores]

\* Lines 70-85: one iteration of the loop over the documents.
RQScore ==
    /\ qa.pc = "loop"
    /\ qa.pos < qa.n
    /\ RQScored(Scored(Fetched(qa.engine, engines, qa.novel), qa.pos + 1, qa.query,
                       qa.scores))
    /\ UNCHANGED <<dirs, sidecar, diskFull, engines, last, wk, bmVars>>

\* Lines 88-89 and 210-222: sort, cut, format and return.
RQReturn ==
    /\ qa.pc = "loop"
    /\ qa.pos = qa.n
    /\ qa' = [qa EXCEPT !.pc = "returned",
                        !.results = Formatted(qa.novel,
                                              SliceTo(SortDesc(qa.scores), qa.top_k))]
    /\ UNCHANGED <<dirs, sidecar, diskFull, engines, last, wk, bmVars>>

\* The text files of a novel change.  build reads them only in its first
\* step and query never does, so a change while a build is under way has the
\* effect of the same change made after the build.
RaceEnv(c) ==
    /\ wk[c].pc = "idle"
    /\ \E d \in DirStates(c) :
          /\ d # dirs[c]
          /\ d.exists = dirs[c].exists
          /\ dirs' = [dirs EXCEPT ![c] = d]
    /\ UNCHANGED <<sidecar, diskFull, engines, last, qa, wk, bmVars>>

NextRace ==
    \/ \E c \in Novels : RBCall(c)
    \/ \E c \in Novels : RBFitBegin(c)
    \/ \E c \in Novels : RBFitEnd(c)
    \/ \E c \in Novels : RBSave(c)
    \/ \E c \in Novels : RBInstall(c)
    \/ \E c \in Novels : RQCall(c)
    \/ RQFetch
    \/ RQBegin
    \/ RQScore
    \/ RQReturn
    \/ \E c \in Novels : RaceEnv(c)

SpecRace == InitRace /\ [][NextRace]_vars

(***************************************************************************)
(* Property of a query racing with a build (checked under SpecRace).       *)
(***************************************************************************)
\* C28: atomic replacement under a racing build.  When build(c) and
\* query(c, q, k) on a cached novel c interleave statement by statement with
\* no lock, the query does not raise and its whole result is the formatted
\* search of one fully built index: the one cached when the query was called
\* or one a build installed while it ran, never a partially built index or a
\* mixture of two.
C28_SingleIndex ==
    qa.pc = "returned" =>
        /\ ~qa.raised
        /\ \E e \in qa.seen :
              /\ e = fit(Fresh, e.documents)
              /\ qa.results = Formatted(qa.novel, search(e, qa.query, qa.top_k))

\* A build installed a different index while the query ran, and the query has
\* returned records that the two indexes do not agree on.
C28_Witness ==
    /\ qa.pc = "returned" /\ qa.results # <<>>
    /\ \E e1, e2 \in qa.seen :
          Formatted(qa.novel, search(e1, qa.query, qa.top_k))
              # Formatted(qa.novel, search(e2, qa.query, qa.top_k))

(***************************************************************************)
(* Further properties of the manager (checked under Spec).                 *)
(***************************************************************************)
\* The positive-scoring (score, document) pairs of every cached index for
\* query q, in dict order.
RECURSIVE AllCandidates(_, _)
AllCandidates(dict, q) ==
    IF dict = <<>> THEN <<>>
    ELSE Candidates(Head(dict).engine, q) \o AllCandidates(Tail(dict), q)

ScoresOf(s) == [i \in DOMAIN s |-> s[i].score]

\* C29: per-collection truncation loses nothing.  For topK >= 1 the scores
\* returned by queryAll(q, topK), which come in descending order, are the topK
\* highest scores among all positive-scoring documents of all cached novels
\* taken together: cutting every novel to its own topK before the merge drops
\* no document that belongs in the global topK.
C29_CutLosesNothing ==
    (last.op = "search_all" /\ ~last.raised /\ last.top_k >= 1) =>
        ScoresOf(last.results)
            = ScoresOf(SliceTo(SortDesc(AllCandidates(engines, last.query)), last.top_k))

\* queryAll has run over two cached novels, one of which has more
\* positive-scoring documents than topK, so its list was cut before the merge.
C29_Witness ==
    /\ last.op = "search_all" /\ ~last.raised /\ last.top_k >= 1
    /\ Len(engines) >= 2
    /\ Len(last.results) = last.top_k
    /\ \E i \in DOMAIN engines :
          Len(Candidates(engines[i].engine, last.query)) > last.top_k

(***************************************************************************)
(* Further property of the index (checked under SpecBM25).                 *)
(***************************************************************************)
\* C30: tie-break of search.  The results are the (score, document) pairs of
\* positions of the document list such that results of equal score stand in
\* the order of their positions, earlier document first, and a positive-scoring
\* document left out by the top_k cut that ties with a returned one stands
\* later in the document list than the returned one.
C30_TieBreak ==
    ret.op = "search" =>
        LET R == ret.results
            terms == tokenize(ret.query)
        IN  \E idx \in [DOMAIN R -> 1..bm.doc_count] :
                /\ \A i \in DOMAIN R :
                      R[i] = [score |-> Score(bm, idx[i], terms),
                              doc |-> bm.documents[idx[i]]]
                /\ \A i, j \in DOMAIN R :
                      (i < j /\ R[i].score = R[j].score) => idx[i] < idx[j]
                /\ \A p \in 1..bm.doc_count, i \in DOMAIN R :
                      (/\ p \notin Range(idx)
                       /\ Score(bm, p, terms) = R[i].score) => idx[i] < p

\* Two different documents tie with a positive score and top_k = 1 has cut
\* between them.
C30_Witness ==
    /\ ret.op = "search" /\ ret.top_k = 1 /\ Len(ret.results) = 1
    /\ bm.doc_count = 2
    /\ bm.documents[1] # bm.documents[2]
    /\ Score(bm, 1, tokenize(ret.query)) = Score(bm, 2, tokenize(ret.query))
    /\ ret.results[1].doc = bm.documents[1]

====
